---- MODULE Spec2Model ----
(***************************************************************************)
(* Booking lifecycle and payment settlement of the YouCanStyle API:        *)
(* app/services/booking_service.py and app/services/payment_service.py.    *)
(*                                                                         *)
(* Collections of the document store are sequences; a document's _id is    *)
(* its index.  Money is counted in minor units (1/100 of a currency unit), *)
(* the precision round(..., 2) of the fee computation works at.            *)
(* Timestamps (createdAt, updatedAt) and the display-only booking fields   *)
(* (clientName, services, price, duration, location, notes, coordinates)   *)
(* are not modelled: no operation reads them.                              *)
(***************************************************************************)
EXTENDS Integers, Sequences, FiniteSets, TLC

\* ------------------------------------------------------------------ bounds
MaxBookings == 1
MaxPayments == 2

MaxMethods == 2
MaxPayouts == 2
MaxReviews == 3

\* ------------------------------------------------------- program constants
PLATFORM_FEE_PERCENTAGE == 10
\* round(x, 2): two decimals, i.e. 100 minor units per currency unit
Scale == 100
\* Optional[int] rating: 0 stands for None / field absent
NoRating == 0

NoneStr == "None"
\* BookingUpdate field left out of the request body (dict(exclude_unset=True))
Unset == "<unset>"

BookingStatus ==
  {"pending", "confirmed", "inProgress", "completed", "cancelled", "noShow", "rescheduled"}
BookingPaymentStatus == {"pending", "completed", "refunded", "failed"}

\* ------------------------------------------------------------ input domains
\* registered users; "ghost" is an id get_user_by_id does not find
UserIds == {"c1", "c2"}
BookingCallers == {"c1", "ghost"}
StylistIds == {"s1"}
\* codes a caller may submit, and the code random.choices draws at creation
OtpCodes == {"0412", "7731"}
GeneratedOtps == {"0412"}
MeetingLinks == {"https://meet.youcanstyle.com/10000000"}
\* the slot a booking is created for, and the slot an update or a reschedule
\* moves it to
Dates == {"d1"}
StartTimes == {"10:00"}
EndTimes == {"11:00"}
NewDates == {"d2"}
NewStartTimes == {"14:00"}
NewEndTimes == {"15:00"}
Reasons == {NoneStr, "client asked"}
CancelReasons == {"changed plans"}
RefundReasons == {"client asked"}
Ratings == {5}
Reviews == {"great"}
\* 10.04 and 1000.00 currency units
Amounts == {1004, 1000 * Scale}
Outcomes == {"ok", "error"}

\* owners of stored payment methods
MethodUsers == {"c1", "s1"}
\* PaymentMethod values a request may carry: the two card types, netbanking,
\* and one of the types add_payment_method has no branch for
MethodTypes == {"credit_card", "debit_card", "netbanking", "upi"}
\* numbers are sequences of digits; <<>> stands for None / field absent
CardNumbers == {<<>>, <<4, 0, 1, 2, 8, 8, 8, 8, 8, 8, 8, 8, 1, 8, 8, 1>>}
BankAccountNumbers == {<<>>, <<9, 1, 0, 0, 2, 0, 0, 3, 4, 5, 6, 7>>}
PayoutAmounts == {500 * Scale}
\* the id the gateway returns for a payout
GatewayRefs == {"po_3f9a1c27be"}

\* ratings of the rating aggregator's example, [5, 4, 3]
ReviewRatings == {3, 4, 5}
\* stylists a review may name; "s2" is an id get_stylist_by_id does not find
ReviewStylists == StylistIds \cup {"s2"}

VARIABLES
  bookings,      \* the bookings collection
  stylists,      \* rating and reviewCount of each stylist document
  payments,      \* the payments collection
  transactions,  \* the transactions collection
  last,          \* the request served last and what it returned
  calls,         \* a start_session and a cancel_booking in flight together
  capture,       \* a create_payment in flight, one store call at a time
  payment_methods,  \* the payment_methods collection
  payouts,       \* the payouts collection
  stylists_reviews,  \* the stylists_reviews collection
  reviewCalls      \* two add_review calls in flight together

vars == <<bookings, stylists, payments, transactions, last, calls, capture,
          payment_methods, payouts, stylists_reviews, reviewCalls>>

\* ------------------------------------------------------------------ helpers
NoBooking ==
  [stylistId |-> NoneStr, clientId |-> NoneStr, status |-> NoneStr,
   paymentStatus |-> NoneStr, otpCode |-> NoneStr, meetingLink |-> NoneStr,
   rating |-> NoRating, review |-> NoneStr, date |-> NoneStr,
   startTime |-> NoneStr, endTime |-> NoneStr,
   cancellationReason |-> NoneStr, rescheduleReason |-> NoneStr]

\* get_booking_by_id: the document, or None
get_booking_by_id(b) == IF b \in 1..Len(bookings) THEN bookings[b] ELSE NoBooking

\* calls: snap is the document a call read first, ret the status of the
\* document it returned.  capture: at is the step a crash interrupted.

\* the request just served: the operation, the booking it named, the value it
\* carried (the code of startSession, the status of updatePaymentStatus, the
\* reason of reschedule, the caller of capture, the stylist of statistics), what it returned ("ok": the document, "none": None,
\* "raised": an exception left the function), the branch that refused it, the
\* payment, method, bank account or review it named, and what a query returned
Called(op, res, b, code, err) ==
  [op |-> op, res |-> res, b |-> b, code |-> code, err |-> err, p |-> 0,
   out |-> <<>>]

CalledOn(op, res, b, p, err) == [Called(op, res, b, NoneStr, err) EXCEPT !.p = p]

\* a query and the value it returned
Answered(op, b, code, p, out) ==
  [Called(op, IF p = 0 /\ out = <<>> THEN "none" ELSE "ok", b, code, "")
     EXCEPT !.p = p, !.out = out]

\* Python truthiness of an Optional[str]
Truthy(s) == s # NoneStr /\ s # ""

\* no request in flight
NoCalls ==
  [b |-> 0,
   start |-> [pc |-> "idle", code |-> NoneStr, snap |-> NoBooking, res |-> "",
              ret |-> NoneStr],
   cancel |-> [pc |-> "idle", reason |-> NoneStr, snap |-> NoBooking, res |-> "",
               ret |-> NoneStr]]

\* no add_review in flight
NoReviewCalls == <<>>

NoCapture ==
  [pc |-> "idle", b |-> 0, client |-> NoneStr, amount |-> 0, fee |-> 0,
   stylist |-> NoneStr, pid |-> 0, res |-> "", at |-> ""]

Init ==
  /\ stylists_reviews = <<>>
  /\ reviewCalls = NoReviewCalls
  /\ payment_methods = <<>>
  /\ payouts = <<>>
  /\ calls = NoCalls
  /\ capture = NoCapture
  /\ bookings = <<>>
  /\ stylists = [s \in StylistIds |-> [rating |-> 0, reviewCount |-> 0]]
  /\ payments = <<>>
  /\ transactions = <<>>
  /\ last = Called("init", "ok", 0, NoneStr, "")

\* ----------------------------------------------------------- booking_service
\* create_booking
NewBooking(client, stylist, online, otp, link, date, st, et) ==
  [stylistId |-> stylist, clientId |-> client, status |-> "pending",
   paymentStatus |-> "pending", otpCode |-> otp,
   meetingLink |-> IF online THEN link ELSE NoneStr,
   rating |-> NoRating, review |-> NoneStr, date |-> date,
   startTime |-> st, endTime |-> et,
   cancellationReason |-> NoneStr, rescheduleReason |-> NoneStr]

CreateBooking ==
  \E client \in BookingCallers, stylist \in StylistIds, online \in BOOLEAN,
     otp \in GeneratedOtps, link \in MeetingLinks,
     date \in Dates, st \in StartTimes, et \in EndTimes :
    /\ Len(bookings) < MaxBookings
    /\ IF client \notin UserIds
       THEN /\ last' = Called("create", "none", 0, NoneStr, "NotFound")
            /\ UNCHANGED bookings
       ELSE /\ bookings' = Append(bookings,
                 NewBooking(client, stylist, online, otp, link, date, st, et))
            /\ last' = Called("create", "ok", Len(bookings) + 1, NoneStr, "")
    /\ UNCHANGED <<stylists, payments, transactions, calls, capture, payment_methods, payouts,
                   stylists_reviews, reviewCalls>>

\* update_booking: $set of the fields the request carried
\* request bodies: a new schedule or none of its fields, with or without a status
UpdatePayloads ==
  [date : NewDates, startTime : NewStartTimes, endTime : NewEndTimes,
   status : BookingStatus \cup {Unset}]
  \cup [date : {Unset}, startTime : {Unset}, endTime : {Unset},
        status : BookingStatus \cup {Unset}]

MergeUpdate(bk, upd) ==
  [bk EXCEPT !.date = IF upd.date # Unset THEN upd.date ELSE @,
             !.startTime = IF upd.startTime # Unset THEN upd.startTime ELSE @,
             !.endTime = IF upd.endTime # Unset THEN upd.endTime ELSE @,
             !.status = IF upd.status # Unset THEN upd.status ELSE @]

UpdateBooking ==
  \E b \in 1..MaxBookings, upd \in UpdatePayloads :
    /\ IF get_booking_by_id(b) = NoBooking
       THEN /\ last' = Called("update", "none", b, NoneStr, "NotFound")
            /\ UNCHANGED bookings
       ELSE /\ bookings' = [bookings EXCEPT ![b] = MergeUpdate(@, upd)]
            /\ last' = Called("update", "ok", b, NoneStr, "")
    /\ UNCHANGED <<stylists, payments, transactions, calls, capture, payment_methods, payouts,
                   stylists_reviews, reviewCalls>>

\* cancel_booking refusing cancelled and noShow bookings only
CancelErrorCompletedAllowed(bk) ==
  IF bk = NoBooking THEN "NotFound"
  ELSE IF bk.status \in {"cancelled", "noShow"} THEN "InvalidState"
  ELSE ""

\* cancel_booking: the early return taken, "" when none is
CancelError(bk) ==
  IF bk = NoBooking THEN "NotFound"
  ELSE IF bk.status \in {"completed", "cancelled", "noShow"} THEN "InvalidState"
  ELSE ""

Cancelled(bk, reason) ==
  [bk EXCEPT !.status = "cancelled",
             !.cancellationReason = IF Truthy(reason) THEN reason ELSE @]

CancelBooking ==
  \E b \in 1..MaxBookings, reason \in CancelReasons :
    LET e == CancelError(get_booking_by_id(b))
    IN /\ IF e = ""
          THEN /\ bookings' = [bookings EXCEPT ![b] = Cancelled(@, reason)]
               /\ last' = Called("cancel", "ok", b, NoneStr, "")
          ELSE /\ last' = Called("cancel", "none", b, NoneStr, e)
               /\ UNCHANGED bookings
       /\ UNCHANGED <<stylists, payments, transactions, calls, capture, payment_methods, payouts,
                      stylists_reviews, reviewCalls>>

\* start_session without its OTP comparison
StartSessionErrorNoOtp(bk, code) ==
  IF bk = NoBooking THEN "NotFound"
  ELSE IF bk.status # "confirmed" THEN "InvalidState"
  ELSE ""

\* start_session accepting a rescheduled booking like a confirmed one
StartSessionErrorRescheduledAllowed(bk, code) ==
  IF bk = NoBooking THEN "NotFound"
  ELSE IF bk.status \notin {"confirmed", "rescheduled"} THEN "InvalidState"
  ELSE IF bk.otpCode # code THEN "AuthFailed"
  ELSE ""

\* start_session: the early return taken, "" when none is
StartSessionError(bk, code) ==
  IF bk = NoBooking THEN "NotFound"
  ELSE IF bk.status # "confirmed" THEN "InvalidState"
  ELSE IF bk.otpCode # code THEN "AuthFailed"
  ELSE ""

\* an update_one that leaves the status confirmed
SessionStartedStaysConfirmed(bk) == [bk EXCEPT !.status = "confirmed"]

\* update_data of start_session
SessionStarted(bk) == [bk EXCEPT !.status = "inProgress"]

StartSession ==
  \E b \in 1..MaxBookings, code \in OtpCodes :
    LET e == StartSessionError(get_booking_by_id(b), code)
    IN /\ IF e = ""
          THEN /\ bookings' = [bookings EXCEPT ![b] = SessionStarted(@)]
               /\ last' = Called("startSession", "ok", b, code, "")
          ELSE /\ last' = Called("startSession", "none", b, code, e)
               /\ UNCHANGED bookings
       /\ UNCHANGED <<stylists, payments, transactions, calls, capture, payment_methods, payouts,
                      stylists_reviews, reviewCalls>>

\* complete_booking
CompleteError(bk) ==
  IF bk = NoBooking THEN "NotFound"
  ELSE IF bk.status # "inProgress" THEN "InvalidState"
  ELSE ""

CompleteBooking ==
  \E b \in 1..MaxBookings :
    LET e == CompleteError(get_booking_by_id(b))
    IN /\ IF e = ""
          THEN /\ bookings' = [bookings EXCEPT ![b].status = "completed"]
               /\ last' = Called("completeSession", "ok", b, NoneStr, "")
          ELSE /\ last' = Called("completeSession", "none", b, NoneStr, e)
               /\ UNCHANGED bookings
       /\ UNCHANGED <<stylists, payments, transactions, calls, capture, payment_methods, payouts,
                      stylists_reviews, reviewCalls>>

\* add_review, and the update_stylist_rating it ends with
AddReviewError(bk) ==
  IF bk = NoBooking THEN "NotFound"
  ELSE IF bk.status # "completed" THEN "InvalidState"
  ELSE ""

RECURSIVE RatedFrom(_, _, _)
\* ids >= i of the bookings the $match stage keeps: this stylist's, rating present
RatedFrom(bks, stylist, i) ==
  IF i > Len(bks) THEN {}
  ELSE (IF bks[i].stylistId = stylist /\ bks[i].rating # NoRating THEN {i} ELSE {})
       \cup RatedFrom(bks, stylist, i + 1)

RECURSIVE SumRatings(_, _)
SumRatings(bks, ids) ==
  IF ids = {} THEN 0
  ELSE LET i == CHOOSE x \in ids : TRUE
       IN bks[i].rating + SumRatings(bks, ids \ {i})

\* round(n / d) of Python 3: to nearest, a tie to the even neighbour
RoundHalfEven(n, d) ==
  LET q == n \div d
      r == n % d
  IN IF 2 * r < d THEN q
     ELSE IF 2 * r > d THEN q + 1
     ELSE IF q % 2 = 0 THEN q ELSE q + 1

\* an aggregation that returned no group
NoAggregate == [rating |-> 0, reviewCount |-> 0]

\* what update_stylist_rating's pipeline returns, rounded for the $set: the
\* rating in tenths and the count, NoAggregate for an empty result
RatingAggregate(bks, stylist) ==
  LET ids == RatedFrom(bks, stylist, 1)
      n == Cardinality(ids)
  IN IF n = 0 THEN NoAggregate
     ELSE [rating |-> RoundHalfEven(10 * SumRatings(bks, ids), n), reviewCount |-> n]

\* the stylists collection after update_stylist_rating; rating is kept in tenths
update_stylist_rating(sty, bks, stylist) ==
  LET agg == RatingAggregate(bks, stylist)
  IN IF agg = NoAggregate THEN sty
     ELSE [sty EXCEPT ![stylist] = agg]

AddReviewOn(b, rating, review) ==
    LET e == AddReviewError(get_booking_by_id(b))
    IN /\ IF e = ""
          THEN /\ bookings' = [bookings EXCEPT ![b].rating = rating, ![b].review = review]
               /\ stylists' = update_stylist_rating(stylists, bookings', bookings[b].stylistId)
               /\ last' = Called("addReview", "ok", b, NoneStr, "")
          ELSE /\ last' = Called("addReview", "none", b, NoneStr, e)
               /\ UNCHANGED <<bookings, stylists>>
       /\ UNCHANGED <<payments, transactions, calls, capture, payment_methods, payouts,
                      stylists_reviews, reviewCalls>>

AddReview ==
  \E b \in 1..MaxBookings, rating \in Ratings, review \in Reviews :
    AddReviewOn(b, rating, review)

\* update_payment_status confirming on completed whatever the status was
PaymentStatusUpdatedAlwaysConfirms(bk, ps) ==
  [bk EXCEPT !.paymentStatus = ps,
             !.status = IF ps = "completed" THEN "confirmed" ELSE @]

\* update_payment_status
PaymentStatusUpdated(bk, ps) ==
  [bk EXCEPT !.paymentStatus = ps,
             !.status = IF ps = "completed" /\ bk.status = "pending"
                        THEN "confirmed" ELSE @]

UpdatePaymentStatus ==
  \E b \in 1..MaxBookings, ps \in BookingPaymentStatus :
    /\ IF get_booking_by_id(b) = NoBooking
       THEN /\ last' = Called("updatePaymentStatus", "none", b, ps, "NotFound")
            /\ UNCHANGED bookings
       ELSE /\ bookings' = [bookings EXCEPT ![b] = PaymentStatusUpdated(@, ps)]
            /\ last' = Called("updatePaymentStatus", "ok", b, ps, "")
    /\ UNCHANGED <<stylists, payments, transactions, calls, capture, payment_methods, payouts,
                   stylists_reviews, reviewCalls>>

\* reschedule_booking refusing completed and noShow bookings only
RescheduleErrorCancelledAllowed(bk) ==
  IF bk = NoBooking THEN "NotFound"
  ELSE IF bk.status \in {"completed", "noShow"} THEN "InvalidState"
  ELSE ""

\* reschedule_booking
RescheduleError(bk) ==
  IF bk = NoBooking THEN "NotFound"
  ELSE IF bk.status \in {"completed", "cancelled", "noShow"} THEN "InvalidState"
  ELSE ""

\* a reschedule that issues a fresh code
RescheduledWithNewOtp(bk, date, st, et, reason) ==
  [bk EXCEPT !.date = date, !.startTime = st, !.endTime = et,
             !.status = "rescheduled", !.otpCode = "7731",
             !.rescheduleReason = IF Truthy(reason) THEN reason ELSE @]

Rescheduled(bk, date, st, et, reason) ==
  [bk EXCEPT !.date = date, !.startTime = st, !.endTime = et,
             !.status = "rescheduled",
             !.rescheduleReason = IF Truthy(reason) THEN reason ELSE @]

RescheduleBooking ==
  \E b \in 1..MaxBookings, date \in NewDates, st \in NewStartTimes,
     et \in NewEndTimes, reason \in Reasons :
    LET e == RescheduleError(get_booking_by_id(b))
    IN /\ IF e = ""
          THEN /\ bookings' = [bookings EXCEPT ![b] = Rescheduled(@, date, st, et, reason)]
               /\ last' = Called("reschedule", "ok", b, reason, "")
          ELSE /\ last' = Called("reschedule", "none", b, reason, e)
               /\ UNCHANGED bookings
       /\ UNCHANGED <<stylists, payments, transactions, calls, capture, payment_methods, payouts,
                      stylists_reviews, reviewCalls>>

\* ----------------------------------------------------------- payment_service
\* round(x, 2) of x = n / d minor units: the nearest minor unit.  At an exact
\* tie the binary value of amount * 0.1 lies on either side (0.05 gives 0.01,
\* 0.25 gives 0.03, 0.45 gives 0.04), so both neighbours are outcomes.
RoundNearest(n, d) ==
  LET q == n \div d
      r == n % d
  IN IF 2 * r < d THEN {q}
     ELSE IF 2 * r > d THEN {q + 1}
     ELSE {q, q + 1}

\* payment_data["platformFee"]
PlatformFee(amount) == RoundNearest(amount * PLATFORM_FEE_PERCENTAGE, 100)

\* the stylist's share computed on its own, from the complementary percentage
StylistAmountOwnShare(amount, fee) ==
  (amount * (100 - PLATFORM_FEE_PERCENTAGE)) \div 100

\* payment_data["stylistAmount"]
StylistAmount(amount, fee) == amount - fee

PaymentRow(b, client, stylist, amount, fee, status, err) ==
  [bookingId |-> b, clientId |-> client, stylistId |-> stylist, amount |-> amount,
   status |-> status, platformFee |-> fee, stylistAmount |-> StylistAmount(amount, fee),
   errorMessage |-> err, refundReason |-> NoneStr]

\* a payment row that books the stylist's share instead of the amount charged
PaymentTransactionNet(b, client, amount, fee, pid) ==
  [userId |-> client, type |-> "payment", amount |-> amount - fee, status |-> "completed",
   bookingId |-> b, paymentId |-> pid, payoutId |-> 0, fee |-> fee]

\* transaction_data of create_payment
PaymentTransaction(b, client, amount, fee, pid) ==
  [userId |-> client, type |-> "payment", amount |-> amount, status |-> "completed",
   bookingId |-> b, paymentId |-> pid, payoutId |-> 0, fee |-> fee]

\* a fee row attributed to the paying client
FeeTransactionToClient(b, client, amount, fee, pid) ==
  [userId |-> client, type |-> "fee", amount |-> fee, status |-> "completed",
   bookingId |-> b, paymentId |-> pid, payoutId |-> 0, fee |-> 0]

\* fee_transaction of create_payment
FeeTransaction(b, client, amount, fee, pid) ==
  [userId |-> "platform", type |-> "fee", amount |-> fee, status |-> "completed",
   bookingId |-> b, paymentId |-> pid, payoutId |-> 0, fee |-> 0]

\* the record the except branch of create_payment inserts
FailedPaymentStillPending(b, client, stylist, amount, fee) ==
  PaymentRow(b, client, stylist, amount, fee, "pending", NoneStr)

\* an except branch that stores the error message but not the status
FailedPaymentLeftPending(b, client, stylist, amount, fee) ==
  PaymentRow(b, client, stylist, amount, fee, "pending", "gateway error")

FailedPayment(b, client, stylist, amount, fee) ==
  PaymentRow(b, client, stylist, amount, fee, "failed", "gateway error")

\* the two rows create_payment appends to the transactions collection
CaptureTransactions(b, client, amount, fee, pid) ==
  <<PaymentTransaction(b, client, amount, fee, pid),
    FeeTransaction(b, client, amount, fee, pid)>>

\* the booking after create_payment's update_one
PaymentCaptured(bk) == [bk EXCEPT !.paymentStatus = "completed"]

\* create_payment refusing a booking that is paid already
CreatePaymentErrorAlreadyPaid(bk, client) ==
  IF bk = NoBooking THEN "NotFound"
  ELSE IF bk.clientId # client THEN "Forbidden"
  ELSE IF bk.paymentStatus = "completed" THEN "AlreadyPaid"
  ELSE ""

\* create_payment: the early return taken, "" when none is
CreatePaymentError(bk, client) ==
  IF bk = NoBooking THEN "NotFound"
  ELSE IF bk.clientId # client THEN "Forbidden"
  ELSE ""

\* create_payment.  gw and notify are what the gateway call and
\* create_notification do: return, or raise.  insert_one stores the new _id in
\* its argument, so when the raise follows the first insert_one the handler's
\* insert_one repeats that _id and its DuplicateKeyError leaves the function.
CreatePayment ==
  \E b \in 1..MaxBookings, client \in UserIds, amount \in Amounts,
     gw \in Outcomes, notify \in Outcomes :
    LET bk == get_booking_by_id(b)
        e == CreatePaymentError(bk, client)
        pid == Len(payments) + 1
    IN /\ Len(payments) < MaxPayments
       /\ IF e # ""
          THEN /\ last' = Called("capture", "none", b, client, e)
               /\ UNCHANGED <<bookings, payments, transactions>>
          ELSE \E fee \in PlatformFee(amount) :
               IF gw = "error"
               THEN /\ payments' = Append(payments,
                         FailedPayment(b, client, bk.stylistId, amount, fee))
                    /\ last' = Called("capture", "none", b, client, "Gateway")
                    /\ UNCHANGED <<bookings, transactions>>
               ELSE /\ payments' = Append(payments,
                         PaymentRow(b, client, bk.stylistId, amount, fee, "completed", NoneStr))
                    /\ transactions' =
                         transactions \o CaptureTransactions(b, client, amount, fee, pid)
                    /\ bookings' = [bookings EXCEPT ![b] = PaymentCaptured(@)]
                    /\ last' = IF notify = "ok"
                               THEN Called("capture", "ok", b, client, "")
                               ELSE Called("capture", "raised", b, client, "Notify")
       /\ UNCHANGED <<stylists, calls, capture, payment_methods, payouts,
                      stylists_reviews, reviewCalls>>

\* refund_payment: the early return taken, "" when none is
RefundError(p) ==
  IF p \notin 1..Len(payments) THEN "NotFound"
  ELSE IF payments[p].status # "completed" THEN "InvalidState"
  ELSE ""

\* a refund row that returns the stylist's share only
RefundTransactionNet(pay, pid) ==
  [userId |-> pay.clientId, type |-> "refund", amount |-> pay.stylistAmount,
   status |-> "completed", bookingId |-> pay.bookingId, paymentId |-> pid,
   payoutId |-> 0, fee |-> 0]

\* transaction_data of refund_payment
RefundTransaction(pay, pid) ==
  [userId |-> pay.clientId, type |-> "refund", amount |-> pay.amount,
   status |-> "completed", bookingId |-> pay.bookingId, paymentId |-> pid,
   payoutId |-> 0, fee |-> 0]

Refunded(pay, reason) == [pay EXCEPT !.status = "refunded", !.refundReason = reason]

RefundPayment ==
  \E p \in 1..MaxPayments, reason \in RefundReasons, gw \in Outcomes, notify \in Outcomes :
    LET e == RefundError(p)
    IN /\ IF e # ""
          THEN /\ last' = CalledOn("refund", "none", 0, p, e)
               /\ UNCHANGED <<bookings, payments, transactions>>
          ELSE LET pay == payments[p]
               IN IF gw = "error"
                  THEN /\ last' = CalledOn("refund", "none", pay.bookingId, p, "Gateway")
                       /\ UNCHANGED <<bookings, payments, transactions>>
                  ELSE /\ payments' = [payments EXCEPT ![p] = Refunded(@, reason)]
                       /\ transactions' = Append(transactions, RefundTransaction(pay, p))
                       /\ bookings' =
                            [bookings EXCEPT ![pay.bookingId].paymentStatus = "refunded"]
                       /\ last' = IF notify = "ok"
                                  THEN CalledOn("refund", "ok", pay.bookingId, p, "")
                                  ELSE CalledOn("refund", "none", pay.bookingId, p, "Notify")
       /\ UNCHANGED <<stylists, calls, capture, payment_methods, payouts,
                      stylists_reviews, reviewCalls>>

\* ------------------------------------------- payment methods and payouts
\* a deleted document: its _id resolves to nothing and is never issued again
NoMethod ==
  [userId |-> NoneStr, type |-> NoneStr, cardNumber |-> <<>>,
   bankAccountNumber |-> <<>>, lastFour |-> <<>>, cardBrand |-> NoneStr,
   bankAccountLast4 |-> <<>>, isDefault |-> FALSE]

\* s[-4:]
Last4(s) == IF Len(s) <= 4 THEN s ELSE SubSeq(s, Len(s) - 3, Len(s))

RECURSIVE PrefixValue(_, _)
\* s[:n] read as a number; strings of digits of one length compare as numbers do
PrefixValue(s, n) ==
  IF n = 0 THEN 0 ELSE 10 * PrefixValue(s, n - 1) + s[n]

\* detect_card_brand, on a number without spaces or dashes
detect_card_brand(card_number) ==
  LET len == Len(card_number)
      P(n) == PrefixValue(card_number, n)
  IN IF len = 0 THEN "Unknown"
     ELSE IF card_number[1] = 4 THEN "Visa"
     ELSE IF card_number[1] = 5 /\ len >= 2 /\ P(2) >= 51 /\ P(2) <= 55 THEN "Mastercard"
     ELSE IF len >= 4 /\ P(4) >= 2221 /\ P(4) <= 2720 THEN "Mastercard"
     ELSE IF len >= 2 /\ P(2) \in {34, 37} THEN "American Express"
     ELSE IF card_number[1] = 6 /\ len >= 4 /\ P(4) = 6011 THEN "Discover"
     ELSE IF card_number[1] = 6 /\ len >= 6 /\ P(6) >= 622126 /\ P(6) <= 622925
          THEN "Discover"
     ELSE IF card_number[1] = 6 /\ len >= 3 /\ P(3) >= 644 /\ P(3) <= 649 THEN "Discover"
     ELSE IF card_number[1] = 6 /\ len >= 2 /\ P(2) = 65 THEN "Discover"
     ELSE "Unknown"

\* payment_method_data of add_payment_method: the request as a dict, then the
\* branch of its type
MethodData(user, type, card, bank, isDefault) ==
  LET data == [userId |-> user, type |-> type, cardNumber |-> card,
               bankAccountNumber |-> bank, lastFour |-> <<>>, cardBrand |-> NoneStr,
               bankAccountLast4 |-> <<>>, isDefault |-> isDefault]
  IN IF type \in {"credit_card", "debit_card"}
     THEN IF Len(card) > 0
          THEN [data EXCEPT !.lastFour = Last4(card),
                            !.cardBrand = detect_card_brand(card),
                            !.cardNumber = <<>>]
          ELSE data
     ELSE IF type = "netbanking"
     THEN IF Len(bank) > 0
          THEN [data EXCEPT !.bankAccountLast4 = Last4(bank),
                            !.bankAccountNumber = <<>>]
          ELSE data
     ELSE data

\* an update_many that leaves the documents as they are
ResetDefaultsSkipped(methods, user) == methods

\* update_many({"userId": user}, {"$set": {"isDefault": False}})
ResetDefaults(methods, user) ==
  [m \in 1..Len(methods) |->
     IF methods[m].userId = user THEN [methods[m] EXCEPT !.isDefault = FALSE]
     ELSE methods[m]]

\* add_payment_method
AddPaymentMethod ==
  \E user \in MethodUsers, type \in MethodTypes, card \in CardNumbers,
     bank \in BankAccountNumbers, isDefault \in BOOLEAN :
    /\ Len(payment_methods) < MaxMethods
    /\ payment_methods' =
         Append(IF isDefault THEN ResetDefaults(payment_methods, user)
                ELSE payment_methods,
                MethodData(user, type, card, bank, isDefault))
    /\ last' = CalledOn("addMethod", "ok", 0, Len(payment_methods) + 1, "")
    /\ UNCHANGED <<bookings, stylists, payments, transactions, calls, capture, payouts,
                   stylists_reviews, reviewCalls>>

\* delete_one / update_one({"_id": method_id, "userId": user_id}) finds a document
OwnMethod(methods, m, user) ==
  m \in 1..Len(methods) /\ methods[m] # NoMethod /\ methods[m].userId = user

\* delete_payment_method
DeletePaymentMethod ==
  \E m \in 1..MaxMethods, user \in MethodUsers :
    /\ IF OwnMethod(payment_methods, m, user)
       THEN /\ payment_methods' = [payment_methods EXCEPT ![m] = NoMethod]
            /\ last' = CalledOn("deleteMethod", "ok", 0, m, "")
       ELSE /\ last' = CalledOn("deleteMethod", "none", 0, m, "NotFound")
            /\ UNCHANGED payment_methods
    /\ UNCHANGED <<bookings, stylists, payments, transactions, calls, capture, payouts,
                   stylists_reviews, reviewCalls>>

\* set_default_payment_method: the reset, then the update_one of the method
SetDefaultPaymentMethod ==
  \E m \in 1..MaxMethods, user \in MethodUsers :
    LET reset == ResetDefaults(payment_methods, user)
    IN /\ IF OwnMethod(reset, m, user)
          THEN /\ payment_methods' = [reset EXCEPT ![m].isDefault = TRUE]
               /\ last' = CalledOn("setDefault", "ok", 0, m, "")
          ELSE /\ payment_methods' = reset
               /\ last' = CalledOn("setDefault", "none", 0, m, "NotFound")
       /\ UNCHANGED <<bookings, stylists, payments, transactions, calls, capture, payouts,
                      stylists_reviews, reviewCalls>>

\* payout_data of create_payout
PayoutRow(stylist, amount, bank, ref) ==
  [stylistId |-> stylist, amount |-> amount, status |-> "pending",
   bankAccountId |-> bank, transactionId |-> ref]

\* a payout row booked to the platform account
PayoutTransactionToPlatform(stylist, amount, payout) ==
  [userId |-> "platform", type |-> "payout", amount |-> amount, status |-> "pending",
   bookingId |-> 0, paymentId |-> 0, payoutId |-> payout, fee |-> 0]

\* transaction_data of create_payout
PayoutTransaction(stylist, amount, payout) ==
  [userId |-> stylist, type |-> "payout", amount |-> amount, status |-> "pending",
   bookingId |-> 0, paymentId |-> 0, payoutId |-> payout, fee |-> 0]

\* create_payout: the early return taken, "" when none is
CreatePayoutError(bank) ==
  IF bank \notin 1..Len(payment_methods) \/ payment_methods[bank] = NoMethod
  THEN "NotFound"
  ELSE ""

\* create_payout.  gw is what payment_gateway.create_payout does: return a
\* reference, or raise.
CreatePayout ==
  \E stylist \in StylistIds, amount \in PayoutAmounts, bank \in 1..MaxMethods,
     gw \in Outcomes, ref \in GatewayRefs :
    LET e == CreatePayoutError(bank)
    IN /\ Len(payouts) < MaxPayouts
       /\ IF e # ""
          THEN /\ last' = CalledOn("payout", "none", 0, bank, e)
               /\ UNCHANGED <<payouts, transactions>>
          ELSE IF gw = "error"
          THEN /\ last' = CalledOn("payout", "none", 0, bank, "Gateway")
               /\ UNCHANGED <<payouts, transactions>>
          ELSE /\ payouts' = Append(payouts, PayoutRow(stylist, amount, bank, ref))
               /\ transactions' = Append(transactions,
                    PayoutTransaction(stylist, amount, Len(payouts) + 1))
               /\ last' = CalledOn("payout", "ok", 0, bank, "")
       /\ UNCHANGED <<bookings, stylists, payments, calls, capture, payment_methods,
                      stylists_reviews, reviewCalls>>

NextMethods ==
  \/ AddPaymentMethod
  \/ DeletePaymentMethod
  \/ SetDefaultPaymentMethod
  \/ CreatePayout

SpecMethods == Init /\ [][NextMethods]_vars

\* ------------------------------------------------------------ specification
Next ==
  \/ CreateBooking
  \/ UpdateBooking
  \/ CancelBooking
  \/ StartSession
  \/ CompleteBooking
  \/ AddReview
  \/ UpdatePaymentStatus
  \/ RescheduleBooking
  \/ CreatePayment
  \/ RefundPayment

Spec == Init /\ [][Next]_vars

\* ----------------------------------------- requests interleaved at their awaits
\* A coroutine gives way only at an await, so a service function runs in steps
\* that each end with one store call: the read with the checks that follow it,
\* the update_one, the read of the document it returns.

\* a booking document the interface can have produced
StoredBookings ==
  {[NewBooking("c1", s, online, otp, link, date, st, et)
      EXCEPT !.status = status, !.paymentStatus = ps] :
     s \in StylistIds, online \in BOOLEAN, otp \in GeneratedOtps, link \in MeetingLinks,
     date \in Dates, st \in StartTimes, et \in EndTimes,
     status \in BookingStatus, ps \in BookingPaymentStatus}

InitRace ==
  /\ stylists_reviews = <<>>
  /\ reviewCalls = NoReviewCalls
  /\ payment_methods = <<>>
  /\ payouts = <<>>
  /\ bookings \in {<<bk>> : bk \in StoredBookings}
  /\ stylists = [s \in StylistIds |-> [rating |-> 0, reviewCount |-> 0]]
  /\ payments = <<>>
  /\ transactions = <<>>
  /\ last = Called("init", "ok", 0, NoneStr, "")
  /\ capture = NoCapture
  /\ \E code \in OtpCodes, reason \in Reasons :
       calls = [b |-> 1,
                start |-> [pc |-> "read", code |-> code, snap |-> NoBooking,
                           res |-> "", ret |-> NoneStr],
                cancel |-> [pc |-> "read", reason |-> reason, snap |-> NoBooking,
                            res |-> "", ret |-> NoneStr]]

RaceFrame ==
  UNCHANGED <<stylists, payments, transactions, last, capture, payment_methods, payouts,
              stylists_reviews, reviewCalls>>

\* start_session up to its update_one: get_booking_by_id and the two checks
StartRead ==
  /\ calls.start.pc = "read"
  /\ LET bk == get_booking_by_id(calls.b)
         e == StartSessionError(bk, calls.start.code)
     IN calls' = [calls EXCEPT !.start.snap = bk,
                               !.start.pc = IF e = "" THEN "write" ELSE "done",
                               !.start.res = IF e = "" THEN "" ELSE "none"]
  /\ UNCHANGED bookings
  /\ RaceFrame

\* start_session's update_one: $set status on the stored document
StartWrite ==
  /\ calls.start.pc = "write"
  /\ bookings' = [bookings EXCEPT ![calls.b] = SessionStarted(@)]
  /\ calls' = [calls EXCEPT !.start.pc = "return"]
  /\ RaceFrame

\* start_session returns the document it reads back
StartReturn ==
  /\ calls.start.pc = "return"
  /\ calls' = [calls EXCEPT !.start.pc = "done", !.start.res = "ok",
                            !.start.ret = get_booking_by_id(calls.b).status]
  /\ UNCHANGED bookings
  /\ RaceFrame

\* cancel_booking up to its update_one
CancelRead ==
  /\ calls.cancel.pc = "read"
  /\ LET bk == get_booking_by_id(calls.b)
         e == CancelError(bk)
     IN calls' = [calls EXCEPT !.cancel.snap = bk,
                               !.cancel.pc = IF e = "" THEN "write" ELSE "done",
                               !.cancel.res = IF e = "" THEN "" ELSE "none"]
  /\ UNCHANGED bookings
  /\ RaceFrame

\* cancel_booking's update_one
CancelWrite ==
  /\ calls.cancel.pc = "write"
  /\ bookings' = [bookings EXCEPT ![calls.b] = Cancelled(@, calls.cancel.reason)]
  /\ calls' = [calls EXCEPT !.cancel.pc = "return"]
  /\ RaceFrame

\* cancel_booking returns the document it reads back
CancelReturn ==
  /\ calls.cancel.pc = "return"
  /\ calls' = [calls EXCEPT !.cancel.pc = "done", !.cancel.res = "ok",
                            !.cancel.ret = get_booking_by_id(calls.b).status]
  /\ UNCHANGED bookings
  /\ RaceFrame

NextRace ==
  \/ StartRead
  \/ StartWrite
  \/ StartReturn
  \/ CancelRead
  \/ CancelWrite
  \/ CancelReturn

SpecRace == InitRace /\ [][NextRace]_vars

\* ------------------------------------------- create_payment, call by call
InitCrash ==
  /\ stylists_reviews = <<>>
  /\ reviewCalls = NoReviewCalls
  /\ payment_methods = <<>>
  /\ payouts = <<>>
  /\ bookings \in {<<bk>> : bk \in StoredBookings}
  /\ stylists = [s \in StylistIds |-> [rating |-> 0, reviewCount |-> 0]]
  /\ payments = <<>>
  /\ transactions = <<>>
  /\ last = Called("init", "ok", 0, NoneStr, "")
  /\ calls = NoCalls
  /\ \E client \in UserIds, amount \in Amounts :
       capture = [NoCapture EXCEPT !.pc = "read", !.b = 1, !.client = client,
                                   !.amount = amount]

CrashFrame == UNCHANGED <<stylists, last, calls, payment_methods, payouts,
                          stylists_reviews, reviewCalls>>

\* get_booking_by_id, the two checks, the fee split
CaptureRead ==
  /\ capture.pc = "read"
  /\ LET bk == get_booking_by_id(capture.b)
         e == CreatePaymentError(bk, capture.client)
     IN IF e # ""
        THEN capture' = [capture EXCEPT !.pc = "done", !.res = "none"]
        ELSE \E fee \in PlatformFee(capture.amount) :
               capture' = [capture EXCEPT !.pc = "gateway", !.fee = fee,
                                          !.stylist = bk.stylistId]
  /\ UNCHANGED <<bookings, payments, transactions>>
  /\ CrashFrame

\* payment_gateway.create_payment returns or raises
CaptureGateway ==
  /\ capture.pc = "gateway"
  /\ \E gw \in Outcomes :
       capture' = [capture EXCEPT !.pc = IF gw = "ok" THEN "insertPayment"
                                         ELSE "insertFailed"]
  /\ UNCHANGED <<bookings, payments, transactions>>
  /\ CrashFrame

\* payments.insert_one of the completed payment
CaptureInsertPayment ==
  /\ capture.pc = "insertPayment"
  /\ payments' = Append(payments,
       PaymentRow(capture.b, capture.client, capture.stylist, capture.amount,
                  capture.fee, "completed", NoneStr))
  /\ capture' = [capture EXCEPT !.pc = "insertPaymentTx", !.pid = Len(payments) + 1]
  /\ UNCHANGED <<bookings, transactions>>
  /\ CrashFrame

\* transactions.insert_one(transaction_data)
CaptureInsertPaymentTx ==
  /\ capture.pc = "insertPaymentTx"
  /\ transactions' = Append(transactions,
       PaymentTransaction(capture.b, capture.client, capture.amount, capture.fee,
                          capture.pid))
  /\ capture' = [capture EXCEPT !.pc = "insertFeeTx"]
  /\ UNCHANGED <<bookings, payments>>
  /\ CrashFrame

\* transactions.insert_one(fee_transaction)
CaptureInsertFeeTx ==
  /\ capture.pc = "insertFeeTx"
  /\ transactions' = Append(transactions,
       FeeTransaction(capture.b, capture.client, capture.amount, capture.fee,
                      capture.pid))
  /\ capture' = [capture EXCEPT !.pc = "updateBooking"]
  /\ UNCHANGED <<bookings, payments>>
  /\ CrashFrame

\* bookings.update_one: paymentStatus = completed
CaptureUpdateBooking ==
  /\ capture.pc = "updateBooking"
  /\ bookings' = [bookings EXCEPT ![capture.b] = PaymentCaptured(@)]
  /\ capture' = [capture EXCEPT !.pc = "notify"]
  /\ UNCHANGED <<payments, transactions>>
  /\ CrashFrame

\* create_notification returns, or raises and the handler's insert raises too
CaptureNotify ==
  /\ capture.pc = "notify"
  /\ \E notify \in Outcomes :
       capture' = [capture EXCEPT !.pc = "done",
                                  !.res = IF notify = "ok" THEN "ok" ELSE "raised"]
  /\ UNCHANGED <<bookings, payments, transactions>>
  /\ CrashFrame

\* the except branch after a gateway error
CaptureInsertFailed ==
  /\ capture.pc = "insertFailed"
  /\ payments' = Append(payments,
       FailedPayment(capture.b, capture.client, capture.stylist, capture.amount,
                     capture.fee))
  /\ capture' = [capture EXCEPT !.pc = "done", !.res = "none"]
  /\ UNCHANGED <<bookings, transactions>>
  /\ CrashFrame

\* the process dies between two store calls; what was written stays
Crash ==
  /\ capture.pc \notin {"idle", "done", "crashed"}
  /\ capture' = [capture EXCEPT !.pc = "crashed", !.at = capture.pc]
  /\ UNCHANGED <<bookings, payments, transactions>>
  /\ CrashFrame

NextCrash ==
  \/ CaptureRead
  \/ CaptureGateway
  \/ CaptureInsertPayment
  \/ CaptureInsertPaymentTx
  \/ CaptureInsertFeeTx
  \/ CaptureUpdateBooking
  \/ CaptureNotify
  \/ CaptureInsertFailed
  \/ Crash

SpecCrash == InitCrash /\ [][NextCrash]_vars

\* ------------------------------------------------- the ledger and its queries
\* stylists a statistics request may name; "s2" has no booking
StatStylists == StylistIds \cup {"s2"}

RECURSIVE FirstFrom(_, _, _)
\* find_one({"bookingId": b}): the first match in the order of insertion, 0 for None
FirstFrom(pays, b, i) ==
  IF i > Len(pays) THEN 0
  ELSE IF pays[i].bookingId = b THEN i
  ELSE FirstFrom(pays, b, i + 1)

\* get_booking_payment: the _id of the payment returned, 0 for None
get_booking_payment(b) == FirstFrom(payments, b, 1)

GetBookingPayment ==
  \E b \in 1..MaxBookings :
    /\ last' = Answered("bookingPayment", b, NoneStr, get_booking_payment(b), <<>>)
    /\ UNCHANGED <<bookings, stylists, payments, transactions, calls, capture,
                   payment_methods, payouts, stylists_reviews, reviewCalls>>

RECURSIVE SumOver(_, _, _)
\* $group with $sum of one field over the documents a $match kept
SumOver(docs, ids, field) ==
  IF ids = {} THEN 0
  ELSE LET i == CHOOSE x \in ids : TRUE
       IN docs[i][field] + SumOver(docs, ids \ {i}, field)

\* an earnings pipeline that matches on the stylist alone
EarningsMatchAnyStatus(stylist) ==
  {p \in 1..Len(payments) : payments[p].stylistId = stylist}

\* $match of earnings_pipeline
EarningsMatch(stylist) ==
  {p \in 1..Len(payments) :
     payments[p].stylistId = stylist /\ payments[p].status = "completed"}

\* $match of pending_pipeline
PendingMatch(stylist) ==
  {p \in 1..Len(payouts) :
     payouts[p].stylistId = stylist /\ payouts[p].status = "pending"}

\* get_stylist_payment_statistics: totalEarnings, pendingPayouts, totalBookings,
\* completedBookings
get_stylist_payment_statistics(stylist) ==
  <<SumOver(payments, EarningsMatch(stylist), "stylistAmount"),
    SumOver(payouts, PendingMatch(stylist), "amount"),
    Cardinality({b \in 1..Len(bookings) : bookings[b].stylistId = stylist}),
    Cardinality({b \in 1..Len(bookings) :
                   bookings[b].stylistId = stylist /\ bookings[b].status = "completed"})>>

GetStylistStatistics ==
  \E stylist \in StatStylists :
    /\ last' = Answered("statistics", 0, stylist, 0,
                        get_stylist_payment_statistics(stylist))
    /\ UNCHANGED <<bookings, stylists, payments, transactions, calls, capture,
                   payment_methods, payouts, stylists_reviews, reviewCalls>>

\* a booking of client c1 and a bank account of its stylist are stored
InitLedger ==
  /\ bookings \in {<<bk>> : bk \in StoredBookings}
  /\ stylists = [s \in StylistIds |-> [rating |-> 0, reviewCount |-> 0]]
  /\ payments = <<>>
  /\ transactions = <<>>
  /\ payouts = <<>>
  /\ \E bank \in BankAccountNumbers \ {<<>>} :
       payment_methods = <<MethodData(bookings[1].stylistId, "netbanking", <<>>, bank, TRUE)>>
  /\ stylists_reviews = <<>>
  /\ reviewCalls = NoReviewCalls
  /\ calls = NoCalls
  /\ capture = NoCapture
  /\ last = Called("init", "ok", 0, NoneStr, "")

NextLedger ==
  \/ CreatePayment
  \/ RefundPayment
  \/ CreatePayout
  \/ GetBookingPayment
  \/ GetStylistStatistics

SpecLedger == InitLedger /\ [][NextLedger]_vars

\* ------------------------------------------------------------ review_service
\* a deleted review: its _id resolves to nothing and is never issued again
NoReview == [userId |-> NoneStr, stylistId |-> NoneStr, rating |-> 0, review |-> NoneStr]

\* $match of review_service.update_stylist_rating: the stylist's review rows
ReviewsOf(revs, stylist) == {r \in 1..Len(revs) : revs[r].stylistId = stylist}

\* an update_stylist_rating that writes nothing when no review is left
review_update_keeps_stale(sty, revs, stylist) ==
  LET ids == ReviewsOf(revs, stylist)
      n == Cardinality(ids)
  IN IF n = 0 THEN sty
     ELSE [sty EXCEPT ![stylist] =
             [rating |-> RoundHalfEven(10 * SumRatings(revs, ids), n),
              reviewCount |-> n]]

\* the stylists collection after review_service.update_stylist_rating; the
\* fallback update_one on {"id": stylist_id} finds no document
review_update_stylist_rating(sty, revs, stylist) ==
  LET ids == ReviewsOf(revs, stylist)
      n == Cardinality(ids)
  IN IF stylist \notin DOMAIN sty THEN sty
     ELSE IF n = 0 THEN [sty EXCEPT ![stylist] = [rating |-> 0, reviewCount |-> 0]]
     ELSE [sty EXCEPT ![stylist] =
             [rating |-> RoundHalfEven(10 * SumRatings(revs, ids), n),
              reviewCount |-> n]]

\* create_review: ValueError when the stylist is not found
CreateReview ==
  \E user \in UserIds, stylist \in ReviewStylists, rating \in ReviewRatings,
     review \in Reviews :
    /\ Len(stylists_reviews) < MaxReviews
    /\ IF stylist \notin StylistIds
       THEN /\ last' = Called("createReview", "raised", 0, stylist, "NotFound")
            /\ UNCHANGED <<stylists_reviews, stylists>>
       ELSE /\ stylists_reviews' = Append(stylists_reviews,
                 [userId |-> user, stylistId |-> stylist, rating |-> rating,
                  review |-> review])
            /\ stylists' = review_update_stylist_rating(stylists, stylists_reviews', stylist)
            /\ last' = [Called("createReview", "ok", 0, stylist, "")
                          EXCEPT !.p = Len(stylists_reviews) + 1]
    /\ UNCHANGED <<bookings, payments, transactions, calls, capture, payment_methods,
                   payouts, reviewCalls>>

\* delete_review
DeleteReview ==
  \E r \in 1..MaxReviews :
    /\ IF r \notin 1..Len(stylists_reviews) \/ stylists_reviews[r] = NoReview
       THEN /\ last' = CalledOn("deleteReview", "none", 0, r, "NotFound")
            /\ UNCHANGED <<stylists_reviews, stylists>>
       ELSE LET stylist == stylists_reviews[r].stylistId
            IN /\ stylists_reviews' = [stylists_reviews EXCEPT ![r] = NoReview]
               /\ stylists' = review_update_stylist_rating(stylists, stylists_reviews', stylist)
               /\ last' = [Called("deleteReview", "ok", 0, stylist, "") EXCEPT !.p = r]
    /\ UNCHANGED <<bookings, payments, transactions, calls, capture, payment_methods,
                   payouts, reviewCalls>>

\* add_review on one of the stored bookings
AddStoredReview ==
  \E b \in 1..Len(bookings), rating \in ReviewRatings, review \in Reviews :
    AddReviewOn(b, rating, review)

\* completed and paid bookings of one stylist, not reviewed yet
CompletedBookings ==
  {bk \in StoredBookings : bk.status = "completed" /\ bk.paymentStatus = "completed"}

InitReviews ==
  /\ bookings \in {<<b1, b2>> : b1 \in CompletedBookings, b2 \in CompletedBookings}
  /\ stylists = [s \in StylistIds |-> [rating |-> 0, reviewCount |-> 0]]
  /\ stylists_reviews = <<>>
  /\ reviewCalls = NoReviewCalls
  /\ payments = <<>>
  /\ transactions = <<>>
  /\ payment_methods = <<>>
  /\ payouts = <<>>
  /\ calls = NoCalls
  /\ capture = NoCapture
  /\ last = Called("init", "ok", 0, NoneStr, "")

NextReviews ==
  \/ AddStoredReview
  \/ CreateReview
  \/ DeleteReview

SpecReviews == InitReviews /\ [][NextReviews]_vars

\* --------------------------------------------- two add_review calls at once
\* add_review gives way at each await: the read of the booking with its check,
\* the update_one of rating and review, the read of the updated booking, the
\* aggregate over the bookings, the update_one of the stylist.
InitReviewRace ==
  /\ bookings \in {<<b1, b2>> : b1 \in CompletedBookings, b2 \in CompletedBookings}
  /\ stylists = [s \in StylistIds |-> [rating |-> 0, reviewCount |-> 0]]
  /\ stylists_reviews = <<>>
  /\ \E r1 \in ReviewRatings, r2 \in ReviewRatings :
       reviewCalls = [i \in 1..2 |->
                      [pc |-> "read", b |-> i, rating |-> IF i = 1 THEN r1 ELSE r2,
                       stylist |-> NoneStr, agg |-> NoAggregate, res |-> ""]]
  /\ payments = <<>>
  /\ transactions = <<>>
  /\ payment_methods = <<>>
  /\ payouts = <<>>
  /\ calls = NoCalls
  /\ capture = NoCapture
  /\ last = Called("init", "ok", 0, NoneStr, "")

ReviewRaceFrame ==
  UNCHANGED <<payments, transactions, last, calls, capture, payment_methods, payouts,
              stylists_reviews>>

\* get_booking_by_id and the status check
ReviewRead ==
  \E i \in 1..2 :
    /\ reviewCalls[i].pc = "read"
    /\ LET bk == get_booking_by_id(reviewCalls[i].b)
           e == AddReviewError(bk)
       IN reviewCalls' = [reviewCalls EXCEPT ![i].stylist = bk.stylistId,
                                         ![i].pc = IF e = "" THEN "write" ELSE "done",
                                         ![i].res = IF e = "" THEN "" ELSE "none"]
    /\ UNCHANGED <<bookings, stylists>>
    /\ ReviewRaceFrame

\* bookings.update_one: $set rating and review
ReviewWrite ==
  \E i \in 1..2, review \in Reviews :
    /\ reviewCalls[i].pc = "write"
    /\ bookings' = [bookings EXCEPT ![reviewCalls[i].b].rating = reviewCalls[i].rating,
                                    ![reviewCalls[i].b].review = review]
    /\ reviewCalls' = [reviewCalls EXCEPT ![i].pc = "reread"]
    /\ UNCHANGED stylists
    /\ ReviewRaceFrame

\* get_booking_by_id of the updated booking
ReviewReread ==
  \E i \in 1..2 :
    /\ reviewCalls[i].pc = "reread"
    /\ reviewCalls' = [reviewCalls EXCEPT ![i].pc = "aggregate"]
    /\ UNCHANGED <<bookings, stylists>>
    /\ ReviewRaceFrame

\* update_stylist_rating: bookings.aggregate(pipeline).to_list
ReviewAggregate ==
  \E i \in 1..2 :
    /\ reviewCalls[i].pc = "aggregate"
    /\ LET agg == RatingAggregate(bookings, reviewCalls[i].stylist)
       IN reviewCalls' = [reviewCalls EXCEPT ![i].agg = agg,
                                         ![i].pc = IF agg = NoAggregate THEN "done"
                                                   ELSE "writeStylist",
                                         ![i].res = IF agg = NoAggregate THEN "ok" ELSE ""]
    /\ UNCHANGED <<bookings, stylists>>
    /\ ReviewRaceFrame

\* update_stylist_rating: stylists.update_one with the aggregate it read
ReviewWriteStylist ==
  \E i \in 1..2 :
    /\ reviewCalls[i].pc = "writeStylist"
    /\ stylists' = [stylists EXCEPT ![reviewCalls[i].stylist] = reviewCalls[i].agg]
    /\ reviewCalls' = [reviewCalls EXCEPT ![i].pc = "done", ![i].res = "ok"]
    /\ UNCHANGED bookings
    /\ ReviewRaceFrame

NextReviewRace ==
  \/ ReviewRead
  \/ ReviewWrite
  \/ ReviewReread
  \/ ReviewAggregate
  \/ ReviewWriteStylist

SpecReviewRace == InitReviewRace /\ [][NextReviewRace]_vars

\* ------------------------------------------------------------------- claims
Terminal == {"completed", "cancelled", "noShow"}

\* C1: startSession succeeds, and sets status = inProgress, exactly when the
\* booking's status is confirmed and the code supplied equals the stored
\* otpCode; in every other case it returns nothing and the booking is as it was.
C1_StartSessionIffConfirmedAndOtp ==
  [][last'.op = "startSession" =>
       LET bk == get_booking_by_id(last'.b)
           ok == last'.res = "ok"
       IN /\ ok <=> (bk # NoBooking /\ bk.status = "confirmed"
                       /\ bk.otpCode = last'.code)
          /\ ok => bookings'[last'.b].status = "inProgress"
          /\ ~ok => bookings' = bookings]_vars

\* a session was started with the stored code
C1_Witness ==
  /\ last.op = "startSession" /\ last.res = "ok"
  /\ bookings[last.b].status = "inProgress"
  /\ bookings[last.b].otpCode = last.code

\* C2: once a booking's status is completed, cancelled or noShow, no operation
\* of the booking or payment interface changes it.
C2_TerminalStatusNeverChanges ==
  [][\A b \in 1..Len(bookings) :
       bookings[b].status \in Terminal => bookings'[b].status = bookings[b].status]_vars

\* C3: a booking carries a rating or a review only while its status is completed.
C3_ReviewOnlyOnCompleted ==
  \A b \in 1..Len(bookings) :
    (bookings[b].rating # NoRating \/ bookings[b].review # NoneStr)
      => bookings[b].status = "completed"

\* C4: a successful capture on a pending booking leaves paymentStatus =
\* completed and status = confirmed, so that startSession with the stored OTP
\* is accepted next.
C4_CapturePromotesPending ==
  [][(last'.op = "capture" /\ last'.res = "ok"
        /\ get_booking_by_id(last'.b).status = "pending") =>
       LET after == bookings'[last'.b]
       IN /\ after.paymentStatus = "completed"
          /\ after.status = "confirmed"
          /\ StartSessionError(after, after.otpCode) = ""]_vars

\* C5: a successful capture appends exactly two transactions, both referencing
\* the new payment: a payment row of the paying client, then a fee row of
\* "platform"; the rows already stored are untouched.
C5_CaptureWritesPaymentAndFeeRow ==
  [][(last'.op = "capture" /\ last'.res = "ok") =>
       LET n == Len(transactions)
           pid == Len(payments')
       IN /\ Len(payments') = Len(payments) + 1
          /\ Len(transactions') = n + 2
          /\ SubSeq(transactions', 1, n) = transactions
          /\ transactions'[n + 1].type = "payment"
          /\ transactions'[n + 1].userId = get_booking_by_id(last'.b).clientId
          /\ transactions'[n + 1].userId = payments'[pid].clientId
          /\ transactions'[n + 1].paymentId = pid
          /\ transactions'[n + 2].type = "fee"
          /\ transactions'[n + 2].userId = "platform"
          /\ transactions'[n + 2].paymentId = pid]_vars

\* a capture returned its payment, and the ledger holds its two rows
C5_Witness ==
  /\ last.op = "capture" /\ last.res = "ok"
  /\ Len(transactions) >= 2
  /\ transactions[Len(transactions)].type = "fee"
  /\ transactions[Len(transactions)].paymentId = Len(payments)

\* C6 as claimed: the amounts of the two rows of a successful capture sum to
\* the payment's amount.
C6_RowsSumToAmount ==
  [][(last'.op = "capture" /\ last'.res = "ok") =>
       LET n == Len(transactions)
       IN transactions'[n + 1].amount + transactions'[n + 2].amount
            = payments'[Len(payments')].amount]_vars

\* C6 amended: the payment row carries the payment's whole amount and the fee
\* row its platformFee, so the two sum to amount + platformFee and differ by
\* stylistAmount.
C6_RowsAreAmountAndFee ==
  [][(last'.op = "capture" /\ last'.res = "ok") =>
       LET n == Len(transactions)
           pay == payments'[Len(payments')]
       IN /\ transactions'[n + 1].amount = pay.amount
          /\ transactions'[n + 2].amount = pay.platformFee
          /\ transactions'[n + 1].amount + transactions'[n + 2].amount
               = pay.amount + pay.platformFee
          /\ transactions'[n + 1].amount - transactions'[n + 2].amount
               = pay.stylistAmount]_vars

\* a capture with a fee above zero returned its payment
C6_Witness ==
  /\ last.op = "capture" /\ last.res = "ok"
  /\ payments[Len(payments)].platformFee > 0
  /\ transactions[Len(transactions)].amount = payments[Len(payments)].platformFee

\* the split is made once: no step changes amount, platformFee or stylistAmount
\* of a stored payment
SplitFixed ==
  \A p \in 1..Len(payments) :
    /\ payments'[p].amount = payments[p].amount
    /\ payments'[p].platformFee = payments[p].platformFee
    /\ payments'[p].stylistAmount = payments[p].stylistAmount

\* C7 as claimed: every completed payment has platformFee + stylistAmount =
\* amount with platformFee exactly 10% of amount, and no operation changes the
\* split.
C7_FeeIsExactlyTenPercent ==
  [][/\ \A p \in 1..Len(payments') :
          payments'[p].status = "completed" =>
            /\ payments'[p].platformFee + payments'[p].stylistAmount = payments'[p].amount
            /\ 100 * payments'[p].platformFee
                 = PLATFORM_FEE_PERCENTAGE * payments'[p].amount
     /\ SplitFixed]_vars

\* distance of the fee from 10% of the amount, in 1/100 of a minor unit
FeeError(pay) ==
  LET d == 100 * pay.platformFee - PLATFORM_FEE_PERCENTAGE * pay.amount
  IN IF d < 0 THEN 0 - d ELSE d

\* C7 amended: every completed payment has platformFee + stylistAmount = amount
\* with platformFee equal to 10% of amount rounded to two decimals, i.e. within
\* half a minor unit of it (1000.00 gives 100.00 and 900.00), and no operation,
\* refund included, changes the split.
C7_FeeIsTenPercentRounded ==
  [][/\ \A p \in 1..Len(payments') :
          payments'[p].status = "completed" =>
            /\ payments'[p].platformFee + payments'[p].stylistAmount = payments'[p].amount
            /\ 2 * FeeError(payments'[p]) <= 100
            /\ payments'[p].amount = 1000 * Scale =>
                 /\ payments'[p].platformFee = 100 * Scale
                 /\ payments'[p].stylistAmount = 900 * Scale
     /\ SplitFixed]_vars

\* a payment whose fee had to be rounded was captured and then refunded
C7_Witness ==
  \E p \in 1..Len(payments) :
    /\ payments[p].status = "refunded"
    /\ FeeError(payments[p]) > 0
    /\ payments[p].platformFee + payments[p].stylistAmount = payments[p].amount

\* C10: when the gateway call of a capture fails, one payment with status
\* failed and an error message is stored, no transaction is written, the
\* capture returns nothing and the booking is as it was.
C10_GatewayFailureLeavesAuditRowOnly ==
  [][(last'.op = "capture" /\ last'.err = "Gateway") =>
       /\ last'.res = "none"
       /\ Len(payments') = Len(payments) + 1
       /\ SubSeq(payments', 1, Len(payments)) = payments
       /\ payments'[Len(payments')].status = "failed"
       /\ payments'[Len(payments')].errorMessage # NoneStr
       /\ payments'[Len(payments')].bookingId = last'.b
       /\ transactions' = transactions
       /\ bookings' = bookings]_vars

\* a capture failed at the gateway and left its audit row
C10_Witness ==
  /\ last.op = "capture" /\ last.err = "Gateway"
  /\ payments[Len(payments)].status = "failed"

\* C8: a startSession with the right code and a cancel that both found the
\* booking confirmed do not both succeed: exactly one of them returns a booking.
C8_StartAndCancelOneWins ==
  (/\ calls.start.pc = "done" /\ calls.cancel.pc = "done"
   /\ calls.start.snap.status = "confirmed"
   /\ calls.cancel.snap.status = "confirmed"
   /\ calls.start.code = calls.start.snap.otpCode)
    => ~((calls.start.res = "ok") <=> (calls.cancel.res = "ok"))

\* transactions the capture in flight has written
CaptureRows ==
  {i \in 1..Len(transactions) :
     capture.pid # 0 /\ transactions[i].paymentId = capture.pid}

\* C9: a crash between two writes of a capture leaves neither a booking the
\* capture marked paid without both of its transactions, nor transactions of
\* the capture with a booking not marked paid.
C9_CaptureWritesAreOneUnit ==
  capture.pc = "crashed" =>
    /\ capture.at = "notify" => Cardinality(CaptureRows) = 2
    /\ CaptureRows # {} => bookings[capture.b].paymentStatus = "completed"

\* C11: when only the notification step of a capture or of a refund fails,
\* the operation still returns the payment to its caller and no failed payment
\* is stored.
C11_NotificationFailureIsNotAFailure ==
  [][(last'.op \in {"capture", "refund"} /\ last'.err = "Notify") =>
       /\ last'.res = "ok"
       /\ \A p \in 1..Len(payments') :
            p > Len(payments) => payments'[p].status # "failed"]_vars

\* C12: refund returns the payment only when its status was completed; the
\* payment and its booking then have (payment) status refunded and exactly one
\* transaction is appended, of type refund and of the payment's amount.  On a
\* payment in any other status refund returns nothing and writes nothing.
C12_RefundOnlyCompleted ==
  [][(last'.op = "refund" /\ last'.p \in 1..Len(payments)) =>
       LET pay == payments[last'.p]
           n == Len(transactions)
       IN /\ last'.res = "ok" => pay.status = "completed"
          /\ last'.res = "ok" =>
               /\ payments'[last'.p].status = "refunded"
               /\ \A q \in 1..Len(payments) : q # last'.p => payments'[q] = payments[q]
               /\ Len(payments') = Len(payments)
               /\ bookings'[pay.bookingId].paymentStatus = "refunded"
               /\ Len(transactions') = n + 1
               /\ SubSeq(transactions', 1, n) = transactions
               /\ transactions'[n + 1].type = "refund"
               /\ transactions'[n + 1].amount = pay.amount
               /\ transactions'[n + 1].paymentId = last'.p
          /\ pay.status # "completed" =>
               /\ last'.res = "none"
               /\ payments' = payments
               /\ transactions' = transactions
               /\ bookings' = bookings]_vars

\* a completed payment was refunded, and a refund of it was refused afterwards
C12_Witness ==
  /\ last.op = "refund" /\ last.err = "InvalidState"
  /\ payments[last.p].status = "refunded"
  /\ \E i \in 1..Len(transactions) :
       /\ transactions[i].type = "refund"
       /\ transactions[i].paymentId = last.p
       /\ transactions[i].amount = payments[last.p].amount

\* C13: cancel returns nothing and leaves the booking as it was when its status
\* is completed, cancelled or noShow; from pending, confirmed, inProgress and
\* rescheduled it returns the booking with status = cancelled.
C13_CancelRefusedOnlyWhenTerminal ==
  [][(last'.op = "cancel" /\ get_booking_by_id(last'.b) # NoBooking) =>
       LET bk == bookings[last'.b]
       IN /\ bk.status \in Terminal =>
               /\ last'.res = "none"
               /\ bookings' = bookings
          /\ bk.status \in {"pending", "confirmed", "inProgress", "rescheduled"} =>
               /\ last'.res = "ok"
               /\ bookings'[last'.b].status = "cancelled"
          /\ bk.status \in Terminal
               \cup {"pending", "confirmed", "inProgress", "rescheduled"}]_vars

\* a cancel of a booking already cancelled was refused
C13_Witness ==
  /\ last.op = "cancel" /\ last.err = "InvalidState"
  /\ bookings[last.b].status = "cancelled"
  /\ bookings[last.b].cancellationReason \in CancelReasons

\* C14: otpCode and meetingLink of a booking are given at creation and no
\* operation changes them afterwards, a reschedule included.
C14_OtpAndMeetingLinkFixed ==
  [][/\ Len(bookings') >= Len(bookings)
     /\ \A b \in 1..Len(bookings) :
          /\ bookings'[b].otpCode = bookings[b].otpCode
          /\ bookings'[b].meetingLink = bookings[b].meetingLink
     /\ \A b \in 1..Len(bookings') :
          b > Len(bookings) => bookings'[b].otpCode \in GeneratedOtps]_vars

\* an online booking was rescheduled and carries its code and its link
C14_Witness ==
  /\ last.op = "reschedule" /\ last.res = "ok"
  /\ bookings[last.b].status = "rescheduled"
  /\ bookings[last.b].otpCode \in GeneratedOtps
  /\ bookings[last.b].meetingLink \in MeetingLinks

\* C17: updatePaymentStatus sets paymentStatus to the value given; it makes
\* status confirmed when that value is completed and status was pending, and
\* leaves status, like every other field, as it was in every other case.
C17_PaymentStatusPromotesOnlyPending ==
  [][(last'.op = "updatePaymentStatus" /\ last'.res = "ok") =>
       LET bk == bookings[last'.b]
           after == bookings'[last'.b]
           promoted == last'.code = "completed" /\ bk.status = "pending"
       IN /\ after.paymentStatus = last'.code
          /\ promoted => after.status = "confirmed"
          /\ ~promoted => after.status = bk.status
          /\ [after EXCEPT !.paymentStatus = bk.paymentStatus, !.status = bk.status]
               = bk]_vars

\* completed was set on a booking that is confirmed now
C17_Witness ==
  /\ last.op = "updatePaymentStatus" /\ last.res = "ok"
  /\ last.code = "completed"
  /\ bookings[last.b].status = "confirmed"

\* C18: reschedule returns nothing and leaves the booking as it was when its
\* status is completed, cancelled or noShow; otherwise the booking gets the new
\* date, startTime and endTime, status = rescheduled, and the reason if one
\* was supplied.
C18_RescheduleOverwritesSchedule ==
  [][(last'.op = "reschedule" /\ get_booking_by_id(last'.b) # NoBooking) =>
       LET bk == bookings[last'.b]
           after == bookings'[last'.b]
       IN /\ bk.status \in Terminal =>
               /\ last'.res = "none"
               /\ bookings' = bookings
          /\ bk.status \notin Terminal =>
               /\ last'.res = "ok"
               /\ after.date \in NewDates
               /\ after.startTime \in NewStartTimes
               /\ after.endTime \in NewEndTimes
               /\ after.status = "rescheduled"
               /\ Truthy(last'.code) => after.rescheduleReason = last'.code]_vars

\* a booking was moved to the new slot with a reason
C18_Witness ==
  /\ last.op = "reschedule" /\ last.res = "ok" /\ last.code = "client asked"
  /\ bookings[last.b].date \in NewDates
  /\ bookings[last.b].startTime \in NewStartTimes
  /\ bookings[last.b].endTime \in NewEndTimes
  /\ bookings[last.b].rescheduleReason = "client asked"

\* C19: completeSession returns the booking, with status = completed, exactly
\* when its status was inProgress, and otherwise changes nothing; a status
\* becomes completed only by completeSession and inProgress only by a
\* successful startSession, so that completed always follows a started session.
C19_CompletedOnlyAfterSession ==
  [][/\ last'.op = "completeSession" =>
          LET bk == get_booking_by_id(last'.b)
              ok == last'.res = "ok"
          IN /\ ok <=> (bk # NoBooking /\ bk.status = "inProgress")
             /\ ok => bookings'[last'.b].status = "completed"
             /\ ~ok => bookings' = bookings
     /\ \A b \in 1..Len(bookings) :
          /\ (bookings'[b].status = "completed" /\ bookings[b].status # "completed")
               => (last'.op = "completeSession" /\ last'.res = "ok")
          /\ (bookings'[b].status = "inProgress" /\ bookings[b].status # "inProgress")
               => (last'.op = "startSession" /\ last'.res = "ok")]_vars

\* stored methods of a user that are flagged as the default
Defaults(user) ==
  {m \in 1..Len(payment_methods) :
     payment_methods[m].userId = user /\ payment_methods[m].isDefault}

\* C15: after any sequence of completed addPaymentMethod,
\* setDefaultPaymentMethod and deletePaymentMethod operations every user has at
\* most one stored payment method with isDefault = true.
C15_AtMostOneDefault ==
  \A user \in MethodUsers : Cardinality(Defaults(user)) <= 1

\* a user with two stored methods made the second the default after the first
C15_Witness ==
  /\ last.op = "setDefault" /\ last.res = "ok" /\ last.p = 2
  /\ payment_methods[1] # NoMethod
  /\ payment_methods[1].userId = payment_methods[2].userId
  /\ Defaults(payment_methods[2].userId) = {2}

\* C16: no stored payment method holds a full card number or a full bank
\* account number, whatever type and optional fields the add request carried:
\* only the last four digits and the brand are kept.
C16_NoFullNumberStored ==
  \A m \in 1..Len(payment_methods) :
    /\ payment_methods[m].cardNumber = <<>>
    /\ payment_methods[m].bankAccountNumber = <<>>
    /\ Len(payment_methods[m].lastFour) <= 4
    /\ Len(payment_methods[m].bankAccountLast4) <= 4

\* C20: a payout request that returns its payout has appended one payout, with
\* status pending and the gateway's reference as transactionId, and one
\* transaction of type payout, of the stylist, referencing that payout; a
\* request whose bankAccountId resolves to no stored method, or whose gateway
\* call fails, returns nothing and writes neither.
C20_PayoutWritesOnePayoutAndOneRow ==
  [][last'.op = "payout" =>
       LET n == Len(transactions)
           k == Len(payouts)
       IN /\ CreatePayoutError(last'.p) # "" => last'.res = "none"
          /\ last'.res = "ok" =>
               /\ Len(payouts') = k + 1
               /\ SubSeq(payouts', 1, k) = payouts
               /\ payouts'[k + 1].status = "pending"
               /\ payouts'[k + 1].transactionId \in GatewayRefs
               /\ payouts'[k + 1].bankAccountId = last'.p
               /\ Len(transactions') = n + 1
               /\ SubSeq(transactions', 1, n) = transactions
               /\ transactions'[n + 1].type = "payout"
               /\ transactions'[n + 1].userId = payouts'[k + 1].stylistId
               /\ transactions'[n + 1].userId \in StylistIds
               /\ transactions'[n + 1].payoutId = k + 1
               /\ transactions'[n + 1].amount = payouts'[k + 1].amount
          /\ last'.res # "ok" =>
               /\ last'.err \in {"NotFound", "Gateway"}
               /\ payouts' = payouts
               /\ transactions' = transactions]_vars

\* a payout to a stored bank account was requested and booked
C20_Witness ==
  /\ last.op = "payout" /\ last.res = "ok"
  /\ payouts[Len(payouts)].status = "pending"
  /\ payouts[Len(payouts)].bankAccountId = last.p
  /\ transactions[Len(transactions)].type = "payout"
  /\ transactions[Len(transactions)].payoutId = Len(payouts)

\* C23: the payment looked up for a booking is the one its successful capture
\* produced: when the booking has a payment that did not fail, the lookup by
\* bookingId returns a payment of the booking that did not fail, never the
\* audit row of a failed attempt.
C23_LookupReturnsCapturedPayment ==
  [][last'.op = "bookingPayment" =>
       /\ last'.p # 0 => payments[last'.p].bookingId = last'.b
       /\ (\E q \in 1..Len(payments) :
             payments[q].bookingId = last'.b /\ payments[q].status # "failed")
            => (last'.p # 0 /\ payments[last'.p].status # "failed")]_vars

\* C24: a capture by the booking's client on a booking whose paymentStatus is
\* completed already is not refused for that; unless the gateway or the
\* notification fails it returns a payment, having stored one more payment
\* with status completed and two more transactions that reference it.
C24_NoIdempotency ==
  [][(/\ last'.op = "capture"
      /\ get_booking_by_id(last'.b) # NoBooking
      /\ get_booking_by_id(last'.b).paymentStatus = "completed"
      /\ get_booking_by_id(last'.b).clientId = last'.code) =>
       LET n == Len(transactions)
           k == Len(payments)
       IN /\ last'.err \in {"", "Gateway", "Notify"}
          /\ last'.err = "" =>
               /\ last'.res = "ok"
               /\ Len(payments') = k + 1
               /\ SubSeq(payments', 1, k) = payments
               /\ payments'[k + 1].status = "completed"
               /\ payments'[k + 1].bookingId = last'.b
               /\ Len(transactions') = n + 2
               /\ SubSeq(transactions', 1, n) = transactions
               /\ transactions'[n + 1].paymentId = k + 1
               /\ transactions'[n + 2].paymentId = k + 1]_vars

\* two captures on one booking both returned a payment
C24_Witness ==
  /\ last.op = "capture" /\ last.res = "ok"
  /\ Len(payments) = 2
  /\ payments[1].status = "completed" /\ payments[2].status = "completed"
  /\ payments[1].bookingId = payments[2].bookingId
  /\ Len(transactions) = 4

\* C25: no payment is ever stored with status pending: every capture that
\* reaches the gateway stores one payment whose status is completed or failed,
\* and after a failed attempt a capture on the same booking still succeeds.
C25_NoPendingPayment ==
  [][/\ \A p \in 1..Len(payments') : payments'[p].status # "pending"
     /\ (last'.op = "capture" /\ last'.err \in {"", "Gateway", "Notify"}) =>
          /\ Len(payments') = Len(payments) + 1
          /\ payments'[Len(payments')].status \in {"completed", "failed"}
          /\ payments'[Len(payments')].bookingId = last'.b
     /\ (/\ last'.op = "capture" /\ last'.err = ""
         /\ \E q \in 1..Len(payments) :
              payments[q].bookingId = last'.b /\ payments[q].status = "failed") =>
          /\ last'.res = "ok"
          /\ payments'[Len(payments')].status = "completed"]_vars

\* a capture failed at the gateway and the next one on the booking succeeded
C25_Witness ==
  /\ last.op = "capture" /\ last.res = "ok"
  /\ Len(payments) = 2
  /\ payments[1].status = "failed" /\ payments[2].status = "completed"
  /\ payments[1].bookingId = payments[2].bookingId

\* what the stylist's payments that are completed now sum to, in stylistAmount
Earned(stylist) ==
  LET sum[i \in 0..Len(payments)] ==
        IF i = 0 THEN 0
        ELSE sum[i - 1]
             + (IF payments[i].stylistId = stylist /\ payments[i].status = "completed"
                THEN payments[i].stylistAmount ELSE 0)
  IN sum[Len(payments)]

\* what the stylist's payouts of the given statuses sum to, in amount
PaidOut(stylist, statuses) ==
  LET sum[i \in 0..Len(payouts)] ==
        IF i = 0 THEN 0
        ELSE sum[i - 1]
             + (IF payouts[i].stylistId = stylist /\ payouts[i].status \in statuses
                THEN payouts[i].amount ELSE 0)
  IN sum[Len(payouts)]

\* C26: statistics(stylistId) returns as totalEarnings the sum of stylistAmount
\* over the stylist's payments that are completed when it is asked (a refunded
\* payment is not counted any more), and as pendingPayouts the sum of amount
\* over the stylist's payouts with status pending.
C26_StatisticsReflectLedger ==
  [][last'.op = "statistics" =>
       /\ last'.out[1] = Earned(last'.code)
       /\ last'.out[2] = PaidOut(last'.code, {"pending"})
       /\ payments' = payments /\ payouts' = payouts]_vars

\* statistics were asked for a stylist with a captured payment, a refunded
\* payment and a pending payout
C26_Witness ==
  /\ last.op = "statistics" /\ last.code \in StylistIds
  /\ \E p, q \in 1..Len(payments) :
       /\ payments[p].stylistId = last.code /\ payments[p].status = "completed"
       /\ payments[q].stylistId = last.code /\ payments[q].status = "refunded"
       /\ last.out[1] = payments[p].stylistAmount
  /\ last.out[2] > 0

\* C27: for every stylist the amounts of the payouts requested never sum to
\* more than the stylistAmount of the stylist's completed payments.
C27_PayoutsWithinEarnings ==
  \A stylist \in StylistIds :
    PaidOut(stylist, {"pending", "completed"}) <= Earned(stylist)

\* C28: a successful reschedule leaves status = rescheduled, and a rescheduled
\* booking stays rescheduled under startSession, completeSession,
\* updatePaymentStatus, capture, refund and reschedule, so it never gets to
\* inProgress or completed that way; only cancel and a generic update change
\* its status.
C28_RescheduledIsDeadEnd ==
  [][/\ (last'.op = "reschedule" /\ last'.res = "ok") =>
          bookings'[last'.b].status = "rescheduled"
     /\ \A b \in 1..Len(bookings) :
          bookings[b].status = "rescheduled" =>
            /\ last'.op \in {"startSession", "completeSession", "updatePaymentStatus",
                             "capture", "refund", "reschedule"}
                 => bookings'[b].status = "rescheduled"
            /\ bookings'[b].status # "rescheduled" => last'.op \in {"cancel", "update"}
            /\ bookings'[b].status \in {"inProgress", "completed"} => last'.op = "update"]_vars

\* the stored code was refused on a rescheduled booking
C28_Witness ==
  /\ last.op = "startSession" /\ last.err = "InvalidState"
  /\ bookings[last.b].status = "rescheduled"
  /\ bookings[last.b].otpCode = last.code

\* C29: a successful startSession leaves a status other than confirmed, and a
\* booking that is neither pending nor confirmed gets back to one of the two
\* only by a generic update of its status; so without such an update
\* startSession succeeds at most once and the same OTP is refused afterwards.
C29_StartSessionAtMostOnce ==
  [][/\ (last'.op = "startSession" /\ last'.res = "ok") =>
          /\ bookings[last'.b].status = "confirmed"
          /\ bookings'[last'.b].status \notin {"pending", "confirmed"}
     /\ (last'.op = "startSession" /\ get_booking_by_id(last'.b) # NoBooking
           /\ bookings[last'.b].status \notin {"pending", "confirmed"}) =>
          last'.res = "none"
     /\ \A b \in 1..Len(bookings) :
          (/\ bookings[b].status \notin {"pending", "confirmed"}
           /\ bookings'[b].status \in {"pending", "confirmed"}) => last'.op = "update"]_vars

\* the stored code was submitted again to a session in progress and refused
C29_Witness ==
  /\ last.op = "startSession" /\ last.err = "InvalidState"
  /\ bookings[last.b].status = "inProgress"
  /\ bookings[last.b].otpCode = last.code

\* C30: when setDefaultPaymentMethod reports failure (the method id does not
\* exist or is another user's) the stored payment methods are as they were,
\* the caller's default included.
C30_FailedSetDefaultChangesNothing ==
  [][(last'.op = "setDefault" /\ last'.res = "none") =>
       payment_methods' = payment_methods]_vars

\* number and sum of the ratings the documents hold for a stylist
RatingCount(docs, stylist) ==
  LET cnt[i \in 0..Len(docs)] ==
        IF i = 0 THEN 0
        ELSE cnt[i - 1]
             + (IF docs[i].stylistId = stylist /\ docs[i].rating # NoRating THEN 1 ELSE 0)
  IN cnt[Len(docs)]

RatingTotal(docs, stylist) ==
  LET sum[i \in 0..Len(docs)] ==
        IF i = 0 THEN 0
        ELSE sum[i - 1]
             + (IF docs[i].stylistId = stylist THEN docs[i].rating ELSE 0)
  IN sum[Len(docs)]

\* the record holds the count of the ratings and, in tenths, a value within
\* half a tenth of their mean; 0 and 0 when there is no rating
HoldsMean(rec, docs, stylist) ==
  LET n == RatingCount(docs, stylist)
      d == n * rec.rating - 10 * RatingTotal(docs, stylist)
  IN /\ rec.reviewCount = n
     /\ n = 0 => rec.rating = 0
     /\ n > 0 => 2 * (IF d < 0 THEN 0 - d ELSE d) <= n

C22_ConcurrentReviewsAggregateAll ==
  (/\ Len(reviewCalls) = 2
   /\ \A i \in 1..2 : reviewCalls[i].pc = "done" /\ reviewCalls[i].res = "ok") =>
    \A i \in 1..2 :
      /\ bookings[reviewCalls[i].b].rating = reviewCalls[i].rating
      /\ stylists[reviewCalls[i].stylist] = RatingAggregate(bookings, reviewCalls[i].stylist)
      /\ stylists[reviewCalls[i].stylist].reviewCount = 2

====
